---- MODULE Spec2Model ----
(***************************************************************************)
(* A model of sync_amex.py: the reconciliation of the additional Amex      *)
(* card's transactions against the main card's in a remote ledger.         *)
(*                                                                         *)
(* The remote ledger (transactions, their owner and tags, the household    *)
(* tag catalog) is the only persistent state.  One run of the script is    *)
(* main(): validate the environment, fetch both accounts, resolve the sync *)
(* tag, then walk the untagged additional-card transactions, issuing the   *)
(* mutations one remote call at a time.  A run can end normally, exit on   *)
(* missing configuration, fail on a remote error, or be interrupted.       *)
(* Further runs start from whatever the ledger then holds.                 *)
(***************************************************************************)
EXTENDS Integers, Sequences, FiniteSets, TLC

(***************************************************************************)
(* Bounds of the model.                                                    *)
(***************************************************************************)
NumMain == 2        \* transactions in the main-card account
NumAddl == 2        \* transactions in the additional-card account
MaxRuns == 2        \* runs of the script in one behaviour
PageCap == 1        \* page size the remote applies on top of the asked limit

None == "None"      \* Python's None (an unset variable, a null field)

MainIds == 1..NumMain
AddlIds == (NumMain + 1)..(NumMain + NumAddl)
TxnIds  == MainIds \cup AddlIds

(***************************************************************************)
(* Strings are sequences of one-character strings, so that lower() and     *)
(* strip() are computed and not assumed.                                   *)
(***************************************************************************)
LowerChar(c) ==
  CASE c = "A" -> "a" [] c = "B" -> "b" [] c = "C" -> "c" [] c = "D" -> "d"
    [] c = "E" -> "e" [] c = "N" -> "n" [] c = "O" -> "o" [] c = "S" -> "s"
    [] c = "Y" -> "y" [] OTHER -> c

\* str.lower()
Lower(s) == [i \in 1..Len(s) |-> LowerChar(s[i])]

RECURSIVE LStrip(_)
LStrip(s) == IF s # <<>> /\ Head(s) = " " THEN LStrip(Tail(s)) ELSE s

RECURSIVE RStrip(_)
RStrip(s) ==
  IF s # <<>> /\ s[Len(s)] = " " THEN RStrip(SubSeq(s, 1, Len(s) - 1)) ELSE s

\* str.strip()
Strip(s) == RStrip(LStrip(s))

\* Python truthiness of an optional string: None and "" are falsy.
\* Variant: only an unset value is falsy.
Truthy_set(v) == v # None

\* Python truthiness of an optional string.
Truthy(v) == v # None /\ v # ""

Min(a, b) == IF a <= b THEN a ELSE b

(***************************************************************************)
(* Program constants (module level of sync_amex.py).                       *)
(***************************************************************************)
SYNC_TAG_NAME == <<"s", "y", "n", "c", "e", "d">>
Limit == 200

MainAcct == "acct_main"
AddlAcct == "acct_addl"

(***************************************************************************)
(* Inputs: what the remote ledger and the environment may hold.            *)
(***************************************************************************)
\* (date, amount, merchant) of a transaction.  The first main-card
\* transaction is fixed and the others have its key or differ in the amount.
\* An additional-card transaction never carries the merchant name exactly as
\* a main-card one does: it matches only through the normalisation of
\* key_for (the first main-card key by strip and lower, the second by lower),
\* or has no merchant object and another date and matches nothing.
MainProfiles(i) ==
  IF i = 1
  THEN { [date |-> 1, amount |-> 10, merchant |-> [null |-> FALSE, name |-> <<"A", "b">>]] }
  ELSE { [date |-> 1, amount |-> 10, merchant |-> [null |-> FALSE, name |-> <<"A", "b">>]],
         [date |-> 1, amount |-> 20, merchant |-> [null |-> FALSE, name |-> <<"A", "b">>]] }

AddlProfiles ==
  { [date |-> 1, amount |-> 10, merchant |-> [null |-> FALSE, name |-> <<" ", "a", "B", " ">>]],
    [date |-> 1, amount |-> 20, merchant |-> [null |-> FALSE, name |-> <<"a", "b">>]],
    [date |-> 2, amount |-> 10, merchant |-> [null |-> TRUE, name |-> <<>>]] }

\* Household tag catalogs, in the order the service lists the tags: one with
\* two tags whose names are the sync tag's name under another casing and
\* as configured, one without any such tag.
Catalogs ==
  { << [id |-> 7, name |-> <<"O">>],
       [id |-> 8, name |-> <<"S", "y", "n", "c", "e", "d">>],
       [id |-> 9, name |-> <<"s", "y", "n", "c", "e", "d">>] >>,
    << [id |-> 7, name |-> <<"O">>] >> }

\* The tag-id lists an additional-card transaction of a household with
\* catalog c may carry: none, the first tag of the catalog, or the last.
TagLists(c) == {<<>>, <<c[1].id>>, <<c[Len(c)].id>>}

\* Environments: complete, and with a required variable unset.
Environments ==
  { [MAIN_ACCOUNT_ID |-> MainAcct, ADDL_ACCOUNT_ID |-> AddlAcct, API_TOKEN |-> "tok"],
    [MAIN_ACCOUNT_ID |-> None,     ADDL_ACCOUNT_ID |-> AddlAcct, API_TOKEN |-> "tok"] }

(***************************************************************************)
(* The remote service, as gql() sees it.                                   *)
(***************************************************************************)
RECURSIVE SortedSeq(_)
SortedSeq(S) ==
  IF S = {} THEN <<>>
  ELSE LET m == CHOOSE x \in S : \A y \in S : x <= y
       IN  <<m>> \o SortedSeq(S \ {m})

\* The tag object (id, name) the service returns for a tag id.
TagObj(c, id) == c[CHOOSE i \in 1..Len(c) : c[i].id = id]

\* A transaction as Web_GetTransactionsList returns it.
RemoteTxn(L, c, i) ==
  [ id          |-> i,
    date        |-> L[i].date,
    amount      |-> L[i].amount,
    merchant    |-> L[i].merchant,
    ownedByUser |-> L[i].ownedByUser,
    tags        |-> [k \in 1..Len(L[i].tags) |-> TagObj(c, L[i].tags[k])] ]

\* allTransactions(filters: {accounts: [account_id]}): the account's
\* transactions in the service's order, one page of them, and the total.
RemoteList(L, account_id) ==
  SortedSeq({i \in DOMAIN L : L[i].account = account_id})

RemotePage(L, c, account_id, offset, limit) ==
  LET all  == RemoteList(L, account_id)
      size == Min(limit, PageCap)
      last == Min(offset + size, Len(all))
  IN  [ results    |-> [k \in 1..(IF last > offset THEN last - offset ELSE 0) |->
                          RemoteTxn(L, c, all[offset + k])],
        totalCount |-> Len(all),
        totalSelectableCount |-> Len(all) ]

(***************************************************************************)
(* fetch_transactions                                                      *)
(***************************************************************************)
\* The normalized shape of one fetched transaction.
Normalize(t) ==
  [ id       |-> t.id,
    date     |-> t.date,
    amount   |-> t.amount,
    owner    |-> IF t.ownedByUser = None THEN "SHARED" ELSE "INDIVIDUAL",
    merchant |-> t.merchant,
    tags     |-> t.tags ]

RECURSIVE FetchLoop(_, _, _, _, _)
FetchLoop(L, c, account_id, offset, results) ==
  LET data     == RemotePage(L, c, account_id, offset, Limit)
      batch    == data.results
      results2 == results \o [k \in 1..Len(batch) |-> Normalize(batch[k])]
      total    == IF data.totalSelectableCount # 0 THEN data.totalSelectableCount
                  ELSE data.totalCount
      offset2  == offset + Len(batch)
  IN  IF offset2 >= total \/ batch = <<>>
      THEN results2
      ELSE FetchLoop(L, c, account_id, offset2, results2)

fetch_transactions(L, c, account_id) == FetchLoop(L, c, account_id, 0, <<>>)

(***************************************************************************)
(* ensure_tag_id, has_sync_tag, key_for, the main-card index               *)
(***************************************************************************)
\* Positions of the catalog's tags whose name is `name`, ignoring case.
TagMatches(c, name) == {i \in 1..Len(c) : Lower(c[i].name) = Lower(name)}

\* Variant: with no tag of that name, the first tag of the catalog is used.
ensure_tag_id_fallback(c, name) ==
  IF TagMatches(c, name) = {} THEN c[1].id
  ELSE c[CHOOSE i \in TagMatches(c, name) : \A k \in TagMatches(c, name) : i <= k].id

\* The id of the first such tag; 0 stands for the RuntimeError raised when
\* there is none.
ensure_tag_id(c, name) ==
  IF TagMatches(c, name) = {} THEN 0
  ELSE c[CHOOSE i \in TagMatches(c, name) : \A k \in TagMatches(c, name) : i <= k].id

\* Variant: the names compared as they are, without lower().
has_sync_tag_exact(txn, sync_tag_name) ==
  \E k \in 1..Len(txn.tags) : txn.tags[k].name = sync_tag_name

has_sync_tag(txn, sync_tag_name) ==
  \E k \in 1..Len(txn.tags) : Lower(txn.tags[k].name) = Lower(sync_tag_name)

\* Variant: the merchant name lower-cased but not stripped.
key_for_nostrip(txn) ==
  LET merchant_name == IF txn.merchant.null THEN <<>> ELSE txn.merchant.name
  IN  <<txn.date, txn.amount, Lower(merchant_name)>>

key_for(txn) ==
  LET merchant_name == IF txn.merchant.null THEN <<>> ELSE txn.merchant.name
  IN  <<txn.date, txn.amount, Lower(Strip(merchant_name))>>

\* main_index: key -> the main-card transactions with that key, in fetch order.
main_index(txns) ==
  [k \in {key_for(txns[i]) : i \in 1..Len(txns)} |->
     SelectSeq(txns, LAMBDA t : key_for(t) = k)]

\* main_index.get(k, [])
IndexGet(index, k) == IF k \in DOMAIN index THEN index[k] ELSE <<>>

\* Variant: the owner compared with a lower-case literal, which never matches.
shared_mains_lowercase(mains) == SelectSeq(mains, LAMBDA m : m.owner = "shared")

\* [m for m in mains if m.owner.upper() == "SHARED"]
shared_mains(mains) == SelectSeq(mains, LAMBDA m : m.owner = "SHARED")

\* [t["id"] for t in addl["tags"]]
existing_tag_ids(addl) == [k \in 1..Len(addl.tags) |-> addl.tags[k].id]

InSeq(x, s) == \E k \in 1..Len(s) : s[k] = x

\* The environment variables main() finds missing.
missing(e) ==
  {n \in {"MAIN_ACCOUNT_ID", "ADDL_ACCOUNT_ID", "API_TOKEN"} : ~Truthy(e[n])}

VARIABLES
  ledger,        \* remote: id -> the transaction record the service holds
  catalog,       \* remote: the household's tags, in the order the service lists them
  env,           \* MAIN_ACCOUNT_ID, ADDL_ACCOUNT_ID, API_TOKEN of this process
  DRY_RUN,       \* run-mode flag of this process
  run,           \* number of the current run
  pc,            \* where main() stands
  status,        \* running, or how the run ended: done, exit, not_found, failed, killed
  main_txns,     \* main(): fetched main-card transactions
  addl_txns,     \* main(): fetched additional-card transactions
  tag_id,        \* main(): resolved sync tag id
  addl_candidates, \* main(): additional-card transactions without the sync tag
  idx,           \* main(): position of `for addl in addl_candidates`
  j,             \* main(): position in the calls of the current candidate
  counts,        \* main(): the three counters
  log,           \* the classification lines printed by this run
  calls,         \* the mutation calls issued by this run
  start,         \* the ledger as it was when this run began
  prev           \* what the previous run left: mode, end, report, start ledger

VARIABLES
  first,         \* history: the ledger before the first run
  f_list,        \* one fetch_transactions call: the account's remote list
  f_total,       \* ... the totals the remote reports
  f_cap,         \* ... the largest page the remote returns
  f_mode,        \* ... "faithful" or "arbitrary" remote
  offset,        \* fetch_transactions: offset
  results,       \* fetch_transactions: results
  fpc            \* fetch_transactions: in the loop, or returned

fetchv == <<f_list, f_total, f_cap, f_mode, offset, results, fpc>>

vars == <<ledger, catalog, env, DRY_RUN, run, pc, status, main_txns, addl_txns, tag_id,
          addl_candidates, idx, j, counts, log, calls, start, prev, first, fetchv>>

(***************************************************************************)
(* The decision main() takes for one candidate.                            *)
(***************************************************************************)
\* mains = main_index.get(key_for(addl), [])
MainsOf(addl) == IndexGet(main_index(main_txns), key_for(addl))

\* Variant: EXISTING_SHARED only when every bucket member is SHARED.
Classification_all(mains) ==
  IF mains = <<>> THEN "NO_MATCH"
  ELSE IF shared_mains(mains) = mains THEN "EXISTING_SHARED"
  ELSE "NEW_SHARED"

\* Variant: the empty bucket is not told apart.
Classification_nocheck(mains) ==
  IF shared_mains(mains) # <<>> THEN "EXISTING_SHARED" ELSE "NEW_SHARED"

Classification(mains) ==
  IF mains = <<>> THEN "NO_MATCH"
  ELSE IF shared_mains(mains) # <<>> THEN "EXISTING_SHARED"
  ELSE "NEW_SHARED"

\* if tag_id not in existing_tag_ids
NeedsTag(addl, id) == ~InSeq(id, existing_tag_ids(addl))

\* Variants: the sync tag is not appended; the existing tags are dropped.
new_tag_ids_same(addl, id) == existing_tag_ids(addl)

new_tag_ids_only(addl, id) == <<id>>

\* new_tag_ids = existing_tag_ids + [tag_id]
new_tag_ids(addl, id) == existing_tag_ids(addl) \o <<id>>

\* [t for t in addl_txns if not has_sync_tag(t, SYNC_TAG_NAME)]
Candidates(txns) == SelectSeq(txns, LAMBDA t : ~has_sync_tag(t, SYNC_TAG_NAME))

\* A remote mutation call: set_owner_shared(id) or update_tags_replace(id,
\* tag_ids); cand is the candidate whose decision asks for it.
OwnerCall(id, cand) ==
  [op |-> "set_owner_shared", id |-> id, tag_ids |-> <<>>, cand |-> cand]

TagCall(id, ids) ==
  [op |-> "update_tags_replace", id |-> id, tag_ids |-> ids, cand |-> id]

\* Variants: the tag is set before the owners; only the first bucket member
\* is set to SHARED.
Mutations_tagfirst(cls, addl, mains, id) ==
  LET tag == IF NeedsTag(addl, id)
             THEN <<TagCall(addl.id, new_tag_ids(addl, id))>>
             ELSE <<>>
  IN  CASE cls = "NO_MATCH"        -> <<>>
        [] cls = "EXISTING_SHARED" -> tag
        [] cls = "NEW_SHARED"      ->
             tag \o [k \in 1..Len(mains) |-> OwnerCall(mains[k].id, addl.id)]

\* Variant: the NEW_SHARED branch tags without any set_owner_shared.
Mutations_tagonly(cls, addl, mains, id) ==
  LET tag == IF NeedsTag(addl, id)
             THEN <<TagCall(addl.id, new_tag_ids(addl, id))>>
             ELSE <<>>
  IN  CASE cls = "NO_MATCH"        -> <<>>
        [] cls = "EXISTING_SHARED" -> tag
        [] cls = "NEW_SHARED"      -> tag

\* Variant: set_owner_shared called with the candidate's own id.
Mutations_addlowner(cls, addl, mains, id) ==
  LET tag == IF NeedsTag(addl, id)
             THEN <<TagCall(addl.id, new_tag_ids(addl, id))>>
             ELSE <<>>
  IN  CASE cls = "NO_MATCH"        -> <<>>
        [] cls = "EXISTING_SHARED" -> tag
        [] cls = "NEW_SHARED"      ->
             [k \in 1..Len(mains) |-> OwnerCall(addl.id, addl.id)] \o tag

Mutations_firstonly(cls, addl, mains, id) ==
  LET tag == IF NeedsTag(addl, id)
             THEN <<TagCall(addl.id, new_tag_ids(addl, id))>>
             ELSE <<>>
  IN  CASE cls = "NO_MATCH"        -> <<>>
        [] cls = "EXISTING_SHARED" -> tag
        [] cls = "NEW_SHARED"      -> <<OwnerCall(mains[1].id, addl.id)>> \o tag

\* The calls the live branches of main() make for a candidate, in order.
Mutations(cls, addl, mains, id) ==
  LET tag == IF NeedsTag(addl, id)
             THEN <<TagCall(addl.id, new_tag_ids(addl, id))>>
             ELSE <<>>
  IN  CASE cls = "NO_MATCH"        -> <<>>
        [] cls = "EXISTING_SHARED" -> tag
        [] cls = "NEW_SHARED"      ->
             [k \in 1..Len(mains) |-> OwnerCall(mains[k].id, addl.id)] \o tag

\* Variant: the NEW_SHARED branch does not look at the flag.
DryBranch_newshared(cls) == DRY_RUN /\ cls # "NEW_SHARED"

\* `if DRY_RUN:` in the branch of a classification.
DryBranch(cls) == DRY_RUN

\* Variant: the counters move only where mutations are applied.
Bump_liveonly(c, cls) ==
  IF DRY_RUN THEN c
  ELSE CASE cls = "NO_MATCH"        -> [c EXCEPT !.no_match = @ + 1]
         [] cls = "EXISTING_SHARED" -> [c EXCEPT !.existing_shared = @ + 1]
         [] cls = "NEW_SHARED"      -> [c EXCEPT !.new_shared = @ + 1]

\* count_synced_existing_shared += 1, count_synced_new_shared += 1,
\* count_no_match += 1
Bump(c, cls) ==
  CASE cls = "NO_MATCH"        -> [c EXCEPT !.no_match = @ + 1]
    [] cls = "EXISTING_SHARED" -> [c EXCEPT !.existing_shared = @ + 1]
    [] cls = "NEW_SHARED"      -> [c EXCEPT !.new_shared = @ + 1]

\* The candidate the loop stands at, its classification and its calls.
Cur     == addl_candidates[idx]
CurCls  == Classification(MainsOf(Cur))
CurPlan == Mutations(CurCls, Cur, MainsOf(Cur), tag_id)

\* The effect of a mutation on the remote ledger.
RemoteApply(L, call) ==
  IF call.op = "set_owner_shared"
  THEN [L EXCEPT ![call.id].ownedByUser = None]
  ELSE [L EXCEPT ![call.id].tags = call.tag_ids]

\* One line of the log, one entry of the call history.
LogLine(cls, addl) ==
  [cls |-> cls, id |-> addl.id, date |-> addl.date, amount |-> addl.amount,
   merchant |-> IF addl.merchant.null THEN <<>> ELSE addl.merchant.name]

Issued(call, ok) ==
  [op |-> call.op, id |-> call.id, tag_ids |-> call.tag_ids, cand |-> call.cand,
   ok |-> ok]

ZeroCounts == [existing_shared |-> 0, new_shared |-> 0, no_match |-> 0]

(***************************************************************************)
(* Initial state: a ledger, a catalog, and a freshly loaded process.       *)
(***************************************************************************)
Ledgers(c) ==
  { [i \in TxnIds |->
       IF i \in MainIds
       THEN [account |-> MainAcct, date |-> pm[i].date, amount |-> pm[i].amount,
             merchant |-> pm[i].merchant, ownedByUser |-> ow[i], tags |-> <<>>]
       ELSE [account |-> AddlAcct, date |-> pa[i].date, amount |-> pa[i].amount,
             merchant |-> pa[i].merchant, ownedByUser |-> "user", tags |-> tg[i]]] :
      pm \in {f \in [MainIds -> MainProfiles(2)] : \A i \in MainIds : f[i] \in MainProfiles(i)},
      pa \in [AddlIds -> AddlProfiles],
      ow \in [MainIds -> {None, "user"}],
      tg \in [AddlIds -> TagLists(c)] }

\* No stepwise fetch_transactions call is under way.
NoFetch ==
  /\ f_list = <<>> /\ f_total = [totalCount |-> 0, totalSelectableCount |-> 0]
  /\ f_cap = Limit /\ f_mode = "faithful"
  /\ offset = 0 /\ results = <<>> /\ fpc = "none"

NoRun ==
  [status |-> "none", mode |-> TRUE, pc |-> "main", cand |-> 0, cls |-> "none",
   pending |-> "none", log |-> <<>>, counts |-> ZeroCounts]

Init ==
  /\ catalog \in Catalogs
  /\ ledger \in Ledgers(catalog)
  /\ env \in Environments
  /\ DRY_RUN \in BOOLEAN
  /\ run = 1
  /\ pc = "main"
  /\ status = "running"
  /\ main_txns = <<>>
  /\ addl_txns = <<>>
  /\ tag_id = 0
  /\ addl_candidates = <<>>
  /\ idx = 0
  /\ j = 0
  /\ counts = ZeroCounts
  /\ log = <<>>
  /\ calls = <<>>
  /\ start = ledger
  /\ prev = [NoRun EXCEPT !.status = "none"] @@ [start |-> ledger]
  /\ first = ledger
  /\ NoFetch

(***************************************************************************)
(* main(), one step per remote call.                                       *)
(***************************************************************************)
locals == <<main_txns, addl_txns, tag_id, addl_candidates, idx, j, counts>>
remote == <<ledger, catalog>>
proc   == <<env, DRY_RUN, run, start, prev, first, fetchv>>

\* The environment check at the top of main().
Validate ==
  /\ status = "running" /\ pc = "main"
  /\ IF missing(env) # {}
     THEN status' = "exit" /\ pc' = pc
     ELSE status' = status /\ pc' = "fetch_main"
  /\ UNCHANGED <<remote, proc, locals, log, calls>>

FetchMain ==
  /\ status = "running" /\ pc = "fetch_main"
  /\ main_txns' = fetch_transactions(ledger, catalog, env.MAIN_ACCOUNT_ID)
  /\ pc' = "fetch_addl"
  /\ UNCHANGED <<remote, proc, status, addl_txns, tag_id, addl_candidates, idx, j,
                 counts, log, calls>>

FetchAddl ==
  /\ status = "running" /\ pc = "fetch_addl"
  /\ addl_txns' = fetch_transactions(ledger, catalog, env.ADDL_ACCOUNT_ID)
  /\ pc' = "resolve"
  /\ UNCHANGED <<remote, proc, status, main_txns, tag_id, addl_candidates, idx, j,
                 counts, log, calls>>

\* ensure_tag_id, then the index, the candidates and the counters.
EnsureTagId ==
  /\ status = "running" /\ pc = "resolve"
  /\ LET id == ensure_tag_id(catalog, SYNC_TAG_NAME)
     IN  IF id = 0
         THEN /\ status' = "not_found"
              /\ UNCHANGED <<pc, tag_id, addl_candidates, idx>>
         ELSE /\ tag_id' = id
              /\ addl_candidates' = Candidates(addl_txns)
              /\ idx' = 1
              /\ pc' = "loop"
              /\ status' = status
  /\ UNCHANGED <<remote, proc, main_txns, addl_txns, j, counts, log, calls>>

\* The head of one loop iteration: look up, classify, print.  With nothing
\* to call (NO_MATCH, dry-run, tag already there) the iteration ends here:
\* count and move on.
Classify ==
  /\ status = "running" /\ pc = "loop" /\ idx <= Len(addl_candidates)
  /\ log' = Append(log, LogLine(CurCls, Cur))
  /\ IF CurCls = "NO_MATCH" \/ DryBranch(CurCls) \/ CurPlan = <<>>
     THEN /\ counts' = Bump(counts, CurCls)
          /\ idx' = idx + 1
          /\ UNCHANGED <<pc, j>>
     ELSE /\ pc' = "mutate"
          /\ j' = 1
          /\ UNCHANGED <<counts, idx>>
  /\ UNCHANGED <<remote, proc, status, main_txns, addl_txns, tag_id,
                 addl_candidates, calls>>

\* What a successful mutation call leaves: the remote effect, the call in
\* the history and, after the last call of the candidate, count and move on.
Applied ==
  /\ ledger' = RemoteApply(ledger, CurPlan[j])
  /\ calls' = Append(calls, Issued(CurPlan[j], TRUE))
  /\ IF j = Len(CurPlan)
     THEN /\ counts' = Bump(counts, CurCls)
          /\ idx' = idx + 1
          /\ j' = 0
          /\ pc' = "loop"
     ELSE /\ j' = j + 1
          /\ UNCHANGED <<counts, idx, pc>>
  /\ UNCHANGED <<catalog, proc, status, main_txns, addl_txns, tag_id,
                 addl_candidates, log>>

\* set_owner_shared(m["id"]) succeeds.
SetOwnerShared ==
  /\ status = "running" /\ pc = "mutate"
  /\ CurPlan[j].op = "set_owner_shared"
  /\ Applied

\* update_tags_replace(addl["id"], new_tag_ids) succeeds.
UpdateTagsReplace ==
  /\ status = "running" /\ pc = "mutate"
  /\ CurPlan[j].op = "update_tags_replace"
  /\ Applied

\* The loop is over: the summary is printed and main() returns.
Summary ==
  /\ status = "running" /\ pc = "loop" /\ idx > Len(addl_candidates)
  /\ status' = "done"
  /\ UNCHANGED <<remote, proc, pc, locals, log, calls>>

\* gql() raises (transport failure or "errors" in the reply): the call has
\* no effect and the exception ends the run.
RemoteError ==
  /\ status = "running"
  /\ pc \in {"fetch_main", "fetch_addl", "resolve", "mutate"}
  /\ status' = "failed"
  /\ calls' = IF pc = "mutate" THEN Append(calls, Issued(CurPlan[j], FALSE))
              ELSE calls
  /\ UNCHANGED <<remote, proc, pc, locals, log>>

\* The process is killed between two steps.
Interrupt ==
  /\ status = "running"
  /\ status' = "killed"
  /\ UNCHANGED <<remote, proc, pc, locals, log, calls>>

\* What a run leaves behind for the claims about two runs.  A run that ran
\* to its end: its mode, what it reported and from which ledger.  A run that
\* stopped inside a candidate's mutations: for which candidate, of which
\* classification, and before which call.  Any other run changed nothing and
\* leaves no more than that it stopped.
Left ==
  [ status  |-> IF status = "done" THEN "done" ELSE "stopped",
    mode    |-> IF status = "done" \/ pc = "mutate" THEN DRY_RUN ELSE TRUE,
    pc      |-> IF pc = "mutate" THEN pc ELSE "main",
    cand    |-> IF pc = "mutate" THEN Cur.id ELSE 0,
    cls     |-> IF pc = "mutate" THEN CurCls ELSE "none",
    pending |-> IF pc = "mutate" THEN CurPlan[j].op ELSE "none",
    log     |-> IF status = "done" THEN log ELSE <<>>,
    counts  |-> IF status = "done" THEN counts ELSE ZeroCounts,
    start   |-> IF status = "done" THEN start ELSE ledger ]

\* The script is started again: a new process, a new environment.
NewProcess ==
  /\ status # "running" /\ run < MaxRuns
  /\ run' = run + 1
  /\ prev' = Left
  /\ env' \in Environments
  /\ DRY_RUN' \in BOOLEAN
  /\ start' = ledger
  /\ pc' = "main"
  /\ status' = "running"
  /\ main_txns' = <<>> /\ addl_txns' = <<>> /\ tag_id' = 0
  /\ addl_candidates' = <<>> /\ idx' = 0 /\ j' = 0
  /\ counts' = ZeroCounts /\ log' = <<>> /\ calls' = <<>>
  /\ UNCHANGED <<remote, first, fetchv>>

Next ==
  \/ Validate \/ FetchMain \/ FetchAddl \/ EnsureTagId
  \/ Classify \/ SetOwnerShared \/ UpdateTagsReplace \/ Summary
  \/ RemoteError \/ Interrupt \/ NewProcess

Spec == Init /\ [][Next]_vars

(***************************************************************************)
(* What the claims speak of, read off the remote ledger and the histories. *)
(***************************************************************************)
\* The matching key of transaction i of ledger L.
KeyOf(L, i) == key_for(Normalize(RemoteTxn(L, catalog, i)))

\* The main-card transactions of L with the key of a, in the remote order.
Bucket(L, a) == SelectSeq(SortedSeq(MainIds), LAMBDA i : KeyOf(L, i) = KeyOf(L, a))

SharedIn(L, i) == L[i].ownedByUser = None

\* Transaction a of L carries a tag named as the sync tag, in any casing.
Labeled(L, a) ==
  \E k \in 1..Len(L[a].tags) :
     Lower(TagObj(catalog, L[a].tags[k]).name) = Lower(SYNC_TAG_NAME)

\* The additional-card transactions a run starting from L has to decide on.
Unlabeled(L) == {a \in AddlIds : ~Labeled(L, a)}

\* This run has finished the loop iteration of candidate a.
Decided(a) ==
  \E p \in 1..Len(addl_candidates) : p < idx /\ addl_candidates[p].id = a

Logged(a) == \E p \in 1..Len(log) : log[p].id = a

LogCls(a) == log[CHOOSE p \in 1..Len(log) : log[p].id = a].cls

\* The calls this run issued for the decision on candidate a.
CallsFor(a) == SelectSeq(calls, LAMBDA c : c.cand = a)

IsOwnerCall(c, i, a) ==
  c.op = "set_owner_shared" /\ c.id = i /\ c.cand = a /\ c.ok

IsTagCall(c, a) == c.op = "update_tags_replace" /\ c.id = a /\ c.ok

\* At the end of a run every unlabeled additional-card transaction has its
\* line in the log.
AllLoggedAtEnd == status = "done" => \A a \in Unlabeled(start) : Logged(a)

Live == ~DRY_RUN

(***************************************************************************)
(* C1  Idempotence across runs.  When a live run has completed and the     *)
(* next run is live too, that next run issues no mutation call at all:     *)
(* neither set_owner_shared nor update_tags_replace, attempted or applied. *)
(***************************************************************************)
C1_Pre == prev.status = "done" /\ ~prev.mode /\ Live

C1_SecondRunIssuesNothing ==
  C1_Pre => calls = <<>> /\ pc # "mutate" /\ ledger = start

\* The first run changed the ledger and the second has run to its end,
\* looking again at a candidate it could not match.
C1_Witness ==
  C1_Pre /\ prev.start # start /\ status = "done" /\ Len(log) > 0

(***************************************************************************)
(* C2  Crash recovery.  When a live run stopped inside a NEW_SHARED        *)
(* decision with the owners set and the tag call still to come, a later    *)
(* live run that completes logs that candidate as EXISTING_SHARED, tags it *)
(* with the sync tag, and issues no set_owner_shared for a main-card       *)
(* transaction of that candidate's key.                                    *)
(***************************************************************************)
C2_Pre ==
  /\ prev.status = "stopped" /\ ~prev.mode
  /\ prev.pc = "mutate" /\ prev.cls = "NEW_SHARED"
  /\ prev.pending = "update_tags_replace"
  /\ Live /\ status = "done"

C2_CrashRecovery ==
  C2_Pre =>
    /\ Logged(prev.cand) /\ LogCls(prev.cand) = "EXISTING_SHARED"
    /\ \E k \in 1..Len(calls) :
          IsTagCall(calls[k], prev.cand) /\ InSeq(tag_id, calls[k].tag_ids)
    /\ InSeq(tag_id, ledger[prev.cand].tags)
    /\ \A k \in 1..Len(calls) :
          calls[k].op = "set_owner_shared" =>
            KeyOf(start, calls[k].id) # KeyOf(start, prev.cand)

C2_Witness == C2_Pre /\ Len(Bucket(start, prev.cand)) = 2

C4_DryRunNoMutation ==
  DRY_RUN => calls = <<>> /\ pc # "mutate" /\ ledger = start

\* A dry run ended having logged a NEW_SHARED and an EXISTING_SHARED.
C4_Witness ==
  /\ DRY_RUN /\ status = "done"
  /\ \E p \in 1..Len(log) : log[p].cls = "NEW_SHARED"
  /\ \E p \in 1..Len(log) : log[p].cls = "EXISTING_SHARED"

(***************************************************************************)
(* C5  Dry-run and live runs report alike.  Two consecutive runs that both *)
(* completed, one dry and one live, from the same remote ledger, printed   *)
(* the same classification lines in the same order and ended with the same *)
(* three counters.                                                         *)
(***************************************************************************)
C5_Pre ==
  /\ prev.status = "done" /\ status = "done"
  /\ prev.mode # DRY_RUN /\ prev.start = start

C5_SameReport == C5_Pre => prev.log = log /\ prev.counts = counts

\* The live run decided on two candidates of one key, both NEW_SHARED.
C5_Witness ==
  /\ C5_Pre /\ Live /\ Len(log) = 2
  /\ log[1].cls = "NEW_SHARED" /\ log[2].cls = "NEW_SHARED"
  /\ KeyOf(start, log[1].id) = KeyOf(start, log[2].id)
  /\ Len(calls) >= 4

(***************************************************************************)
(* C6  No double-processing within a run.  No two calls of one run are the *)
(* same kind of mutation on the same transaction, and no                   *)
(* update_tags_replace carries the sync tag id twice.                      *)
(***************************************************************************)
C6_NoDoubleProcessing ==
  /\ \A g, k \in 1..Len(calls) :
        (g < k /\ calls[g].op = calls[k].op) => calls[g].id # calls[k].id
  /\ \A k \in 1..Len(calls) :
        Cardinality({h \in 1..Len(calls[k].tag_ids) : calls[k].tag_ids[h] = tag_id}) <= 1

(***************************************************************************)
(* C7  Label-set replacement preserves existing labels.  Every             *)
(* update_tags_replace targets an additional-card transaction and carries  *)
(* the tag ids that transaction had when the run began, in their order,    *)
(* followed by the sync tag id, which was not among them.                  *)
(***************************************************************************)
C7_TagsPreserved ==
  \A k \in 1..Len(calls) :
     calls[k].op = "update_tags_replace" =>
        /\ calls[k].id \in AddlIds
        /\ calls[k].tag_ids = start[calls[k].id].tags \o <<tag_id>>
        /\ ~InSeq(tag_id, start[calls[k].id].tags)
        /\ calls[k].ok => ledger[calls[k].id].tags = calls[k].tag_ids

\* A transaction that had another tag has been given the sync tag.
C7_Witness ==
  \E k \in 1..Len(calls) :
     IsTagCall(calls[k], calls[k].id) /\ Len(calls[k].tag_ids) = 2

(***************************************************************************)
(* C8  NEW_SHARED mutation count.  In a live run, for an unlabeled         *)
(* additional-card transaction whose bucket holds n >= 1 main-card         *)
(* transactions, none SHARED when the run began: once its loop iteration   *)
(* is over it is logged NEW_SHARED and the calls issued for it are exactly *)
(* n successful set_owner_shared, one per bucket member in bucket order,   *)
(* then one successful update_tags_replace on it.                          *)
(***************************************************************************)
C8_Case(a) ==
  /\ a \in Unlabeled(start)
  /\ Bucket(start, a) # <<>>
  /\ \A h \in 1..Len(Bucket(start, a)) : ~SharedIn(start, Bucket(start, a)[h])

C8_NewSharedCalls ==
  Live =>
    /\ AllLoggedAtEnd
    /\ \A a \in AddlIds :
          (C8_Case(a) /\ Decided(a)) =>
             LET b == Bucket(start, a)
                 c == CallsFor(a)
             IN  /\ LogCls(a) = "NEW_SHARED"
                 /\ Len(c) = Len(b) + 1
                 /\ \A h \in 1..Len(b) : IsOwnerCall(c[h], b[h], a)
                 /\ IsTagCall(c[Len(c)], a)

\* Two INDIVIDUAL main-card transactions and one candidate at one key:
\* three calls.
C8_Witness ==
  /\ Live /\ status = "done"
  /\ \E a \in AddlIds :
        C8_Case(a) /\ Decided(a) /\ Len(Bucket(start, a)) = 2 /\ Len(CallsFor(a)) = 3

(***************************************************************************)
(* C9  EXISTING_SHARED leaves main-card ownership untouched.  In a live    *)
(* run, for an unlabeled additional-card transaction whose bucket had a    *)
(* SHARED member when the run began: no set_owner_shared is issued for it, *)
(* the bucket members that were INDIVIDUAL stay INDIVIDUAL, and once its   *)
(* loop iteration is over it is logged EXISTING_SHARED with exactly one    *)
(* call issued for it, a successful update_tags_replace on it.             *)
(***************************************************************************)
C9_Case(a) ==
  /\ a \in Unlabeled(start)
  /\ \E h \in 1..Len(Bucket(start, a)) : SharedIn(start, Bucket(start, a)[h])

C9_ExistingSharedCalls ==
  Live =>
    \A a \in AddlIds :
       C9_Case(a) =>
          /\ \A h \in 1..Len(Bucket(start, a)) :
                LET i == Bucket(start, a)[h]
                IN  /\ ~SharedIn(start, i) => ~SharedIn(ledger, i)
                    /\ \A k \in 1..Len(calls) :
                          ~(calls[k].op = "set_owner_shared" /\ calls[k].id = i)
          /\ Decided(a) =>
                /\ LogCls(a) = "EXISTING_SHARED"
                /\ Len(CallsFor(a)) = 1
                /\ IsTagCall(CallsFor(a)[1], a)

\* A bucket with one SHARED and one INDIVIDUAL member, its candidate tagged.
C9_Witness ==
  /\ Live /\ status = "done"
  /\ \E a \in AddlIds :
        /\ C9_Case(a) /\ Decided(a)
        /\ \E h \in 1..Len(Bucket(start, a)) : ~SharedIn(ledger, Bucket(start, a)[h])

(***************************************************************************)
(* C10  NO_MATCH produces no mutation.  In any run, for an unlabeled       *)
(* additional-card transaction whose key no main-card transaction has:     *)
(* no call is ever issued for it; once its loop iteration is over it is    *)
(* logged NO_MATCH; the step that logs NO_MATCH moves to the next          *)
(* candidate without failing; and each counter equals the number of        *)
(* finished iterations of its classification.                              *)
(***************************************************************************)
C10_Case(a) == a \in Unlabeled(start) /\ Bucket(start, a) = <<>>

Tally(cls) ==
  Cardinality({p \in 1..Len(log) : p < idx /\ log[p].cls = cls})

C10_NoMatchNoMutation ==
  /\ AllLoggedAtEnd
  /\ \A a \in AddlIds :
        C10_Case(a) =>
           /\ CallsFor(a) = <<>>
           /\ Decided(a) => LogCls(a) = "NO_MATCH"
  /\ (log # <<>> /\ log[Len(log)].cls = "NO_MATCH") =>
        idx = Len(log) + 1 /\ status # "failed"
  /\ pc \in {"loop", "mutate"} =>
        /\ counts.no_match = Tally("NO_MATCH")
        /\ counts.existing_shared = Tally("EXISTING_SHARED")
        /\ counts.new_shared = Tally("NEW_SHARED")

\* A run went past an unmatched candidate to a matched one and ended.
C10_Witness ==
  /\ status = "done" /\ Len(log) = 2
  /\ C10_Case(log[1].id) /\ log[2].cls # "NO_MATCH"
  /\ counts.no_match = 1

(***************************************************************************)
(* C11  Already-labeled exclusion.  An additional-card transaction that,   *)
(* when the run began, carried a tag named as the sync tag in any casing   *)
(* is no candidate of that run: it has no line in the log, it is counted   *)
(* by none of the three counters (they count log lines only), and no       *)
(* mutation call of the run is issued for it or targets it.                *)
(***************************************************************************)
C11_LabeledExcluded ==
  /\ \A a \in AddlIds :
        Labeled(start, a) =>
           /\ ~Logged(a)
           /\ \A p \in 1..Len(addl_candidates) : addl_candidates[p].id # a
           /\ \A k \in 1..Len(calls) : calls[k].id # a /\ calls[k].cand # a
           /\ ledger[a] = start[a]
  /\ counts.no_match + counts.existing_shared + counts.new_shared <= Len(log)

\* A live run ended that met a labeled transaction whose key matches
\* main-card transactions that are all INDIVIDUAL, and left them so.
C11_Witness ==
  /\ Live /\ status = "done"
  /\ \E a \in AddlIds :
        /\ Labeled(start, a)
        /\ Bucket(start, a) # <<>>
        /\ \A h \in 1..Len(Bucket(start, a)) : ~SharedIn(ledger, Bucket(start, a)[h])

(***************************************************************************)
(* fetch_transactions, one step per page, against a remote list that does  *)
(* not change during the call.  A faithful remote reports the true total   *)
(* and returns, while records remain, between one record and its cap; an   *)
(* arbitrary remote reports any totals and may return short or empty pages *)
(* at any time.                                                            *)
(***************************************************************************)
MaxTxns  == 3
MaxCap   == 2
MaxTotal == 4

RawTxn(k, o) ==
  [id |-> k, date |-> 1, amount |-> 10, ownedByUser |-> o,
   merchant |-> [null |-> TRUE, name |-> <<>>], tags |-> <<>>]

RemoteLists ==
  UNION { { [k \in 1..n |-> RawTxn(k, ow[k])] : ow \in [1..n -> {None, "user"}] } :
          n \in 0..MaxTxns }

Totals(n, mode) ==
  IF mode = "faithful"
  THEN { [totalCount |-> n, totalSelectableCount |-> s] : s \in {0, n} }
  ELSE [totalCount : 0..MaxTotal, totalSelectableCount : 0..MaxTotal]

Remaining == IF Len(f_list) > offset THEN Len(f_list) - offset ELSE 0

PageSizes ==
  LET most == Min(Min(Limit, f_cap), Remaining)
  IN  IF f_mode = "faithful" THEN (IF most = 0 THEN {0} ELSE 1..most) ELSE 0..most

\* Variant: the offset advanced by the page size asked for.
NextOffset_limit(off, batch) == off + Limit

\* offset += len(batch)
NextOffset(off, batch) == off + Len(batch)

\* Variant: the loop left on the reported total only.
StopFetch_total(off, total, batch) == off >= total

\* if offset >= total or not batch: break
StopFetch(off, total, batch) == off >= total \/ batch = <<>>

\* The other variables while only fetch_transactions is looked at.
NoSync ==
  /\ ledger = <<>> /\ catalog = <<>> /\ env = <<>> /\ DRY_RUN = TRUE
  /\ run = 0 /\ pc = "none" /\ status = "none"
  /\ main_txns = <<>> /\ addl_txns = <<>> /\ tag_id = 0
  /\ addl_candidates = <<>> /\ idx = 0 /\ j = 0
  /\ counts = ZeroCounts /\ log = <<>> /\ calls = <<>>
  /\ start = <<>> /\ prev = NoRun /\ first = <<>>

InitFetch ==
  /\ NoSync
  /\ f_list \in RemoteLists
  /\ f_mode \in {"faithful", "arbitrary"}
  /\ f_total \in Totals(Len(f_list), f_mode)
  /\ f_cap \in (1..MaxCap) \cup {Limit}
  /\ offset = 0
  /\ results = <<>>
  /\ fpc = "loop"

\* One iteration of the while loop: a page is requested at offset, its
\* records are normalized and appended, the offset advances, the loop is
\* left or not.
FetchPage ==
  /\ fpc = "loop"
  /\ \E size \in PageSizes :
        LET batch   == [k \in 1..size |-> f_list[offset + k]]
            total   == IF f_total.totalSelectableCount # 0
                       THEN f_total.totalSelectableCount
                       ELSE f_total.totalCount
            offset2 == NextOffset(offset, batch)
        IN  /\ results' = results \o [k \in 1..Len(batch) |-> Normalize(batch[k])]
            /\ offset' = offset2
            /\ fpc' = IF StopFetch(offset2, total, batch) THEN "returned" ELSE "loop"
  /\ UNCHANGED <<remote, env, DRY_RUN, run, start, prev, first, pc, status, locals,
                 log, calls, f_list, f_total, f_cap, f_mode>>

NextFetch == FetchPage

SpecFetch == InitFetch /\ [][NextFetch]_vars

(***************************************************************************)
(* C12  Fetch completeness.  Against a faithful remote, whatever cap it    *)
(* applies: every page is requested at offset = number of records received *)
(* so far; what has been received is the remote list's prefix of that      *)
(* length, normalized, in the remote order (nothing skipped, nothing       *)
(* twice); the loop goes on only while that number is below the reported   *)
(* total; and what is returned is the whole list.                          *)
(***************************************************************************)
C12_FetchComplete ==
  f_mode = "faithful" =>
     /\ offset = Len(results)
     /\ Len(results) <= Len(f_list)
     /\ \A k \in 1..Len(results) : results[k] = Normalize(f_list[k])
     /\ fpc = "loop" /\ offset > 0 => offset < Len(f_list)
     /\ fpc = "returned" => Len(results) = Len(f_list)

\* A faithful remote whose cap is below the list's length: the call
\* returned after more than one page.
C12_Witness ==
  /\ f_mode = "faithful" /\ fpc = "returned"
  /\ f_cap < Len(f_list) /\ Len(results) = Len(f_list)
  /\ \E k \in 1..Len(results) : results[k].owner = "SHARED"

(***************************************************************************)
(* C13  Label not found aborts before any mutation.  With no tag in the    *)
(* catalog named as the sync tag, ignoring case, a run never enters the    *)
(* loop and never ends normally: it issues no call and leaves the ledger   *)
(* as it found it, and the not-found failure is raised at the tag lookup,  *)
(* after both fetches.  With such a tag, the id of the first one in the    *)
(* catalog is the id the run holds and the id every label-set call         *)
(* carries.  No step of any run changes the catalog.                       *)
(***************************************************************************)
NoLabel == \A i \in 1..Len(catalog) : Lower(catalog[i].name) # Lower(SYNC_TAG_NAME)

FirstLabel ==
  CHOOSE i \in 1..Len(catalog) :
     /\ Lower(catalog[i].name) = Lower(SYNC_TAG_NAME)
     /\ \A k \in 1..(i - 1) : Lower(catalog[k].name) # Lower(SYNC_TAG_NAME)

C13_State ==
  /\ NoLabel =>
        /\ pc \in {"main", "fetch_main", "fetch_addl", "resolve"}
        /\ status # "done"
        /\ tag_id = 0 /\ addl_candidates = <<>>
        /\ calls = <<>> /\ log = <<>>
        /\ ledger = first
        /\ pc = "resolve" /\ status \notin {"running", "killed", "failed"}
              => status = "not_found"
  /\ status = "not_found" =>
        /\ NoLabel /\ pc = "resolve"
        /\ main_txns = fetch_transactions(ledger, catalog, env.MAIN_ACCOUNT_ID)
        /\ addl_txns = fetch_transactions(ledger, catalog, env.ADDL_ACCOUNT_ID)
  /\ ~NoLabel =>
        /\ tag_id \in {0, catalog[FirstLabel].id}
        /\ \A k \in 1..Len(calls) :
              calls[k].op = "update_tags_replace" =>
                 /\ InSeq(catalog[FirstLabel].id, calls[k].tag_ids)
                 /\ \A h \in 1..Len(calls[k].tag_ids) :
                       \/ calls[k].tag_ids[h] = catalog[FirstLabel].id
                       \/ InSeq(calls[k].tag_ids[h], start[calls[k].id].tags)

C13_LabelNotFound == [](C13_State) /\ [][catalog' = catalog]_vars

\* A live run, with a candidate whose key a main-card transaction has,
\* stopped by the not-found error.
C13_Witness ==
  /\ status = "not_found" /\ Live
  /\ \E a \in Unlabeled(start) : Bucket(start, a) # <<>>

(***************************************************************************)
(* A mutation answered with errors inside its payload.  Both mutations ask *)
(* for updateTransaction.errors / setTransactionTags.errors, gql() raises  *)
(* on a failed HTTP status and on a top-level "errors" member only, and    *)
(* set_owner_shared and update_tags_replace drop what gql() returns: the   *)
(* remote applied nothing, the call returns normally, main() goes on.      *)
(***************************************************************************)
PayloadError ==
  /\ status = "running" /\ pc = "mutate"
  /\ calls' = Append(calls, Issued(CurPlan[j], FALSE))
  /\ IF j = Len(CurPlan)
     THEN /\ counts' = Bump(counts, CurCls)
          /\ idx' = idx + 1
          /\ j' = 0
          /\ pc' = "loop"
     ELSE /\ j' = j + 1
          /\ UNCHANGED <<counts, idx, pc>>
  /\ UNCHANGED <<remote, proc, status, main_txns, addl_txns, tag_id,
                 addl_candidates, log>>

NextPayload == Next \/ PayloadError

SpecPayload == Init /\ [][NextPayload]_vars

\* The ledger after the calls of cs that the remote applied, in order.
RECURSIVE ReplayOk(_, _)
ReplayOk(L, cs) ==
  IF cs = <<>> THEN L
  ELSE LET L2 == IF Head(cs).ok THEN RemoteApply(L, Head(cs)) ELSE L
       IN  ReplayOk(L2, Tail(cs))

(***************************************************************************)
(* C14  Fail-fast on remote errors.  A remote call of a run that failed is *)
(* the last remote call of that run: a failed mutation is the last entry   *)
(* of the run's call history and the run has ended as failed; a run that   *)
(* failed at a fetch or at the tag lookup has issued no mutation.  The     *)
(* ledger is what the mutations applied before the failure made of it.     *)
(***************************************************************************)
C14_FailFast ==
  /\ \A k \in 1..Len(calls) :
        ~calls[k].ok => k = Len(calls) /\ status = "failed" /\ pc = "mutate"
  /\ status = "failed" /\ pc # "mutate" =>
        pc \in {"fetch_main", "fetch_addl", "resolve"} /\ calls = <<>>
  /\ status = "failed" /\ pc = "mutate" =>
        calls # <<>> /\ ~calls[Len(calls)].ok
  /\ ledger = ReplayOk(start, calls)

(***************************************************************************)
(* The process environment as the module reads it at import: every         *)
(* variable unset, empty or set, API_TOKEN taken from MONARCH_API_TOKEN or *)
(* else from MONARCH_BEARER_TOKEN.                                         *)
(***************************************************************************)
OsEnvironments ==
  [ MAIN_ACCOUNT_ID      : {None, "", MainAcct},
    ADDL_ACCOUNT_ID      : {None, "", AddlAcct},
    MONARCH_API_TOKEN    : {None, "", "tok"},
    MONARCH_BEARER_TOKEN : {None, "", "tok"} ]

\* Python's `a or b`.
Or(a, b) == IF Truthy(a) THEN a ELSE b

LoadEnv(os) ==
  [ MAIN_ACCOUNT_ID |-> os.MAIN_ACCOUNT_ID,
    ADDL_ACCOUNT_ID |-> os.ADDL_ACCOUNT_ID,
    API_TOKEN       |-> Or(os.MONARCH_API_TOKEN, os.MONARCH_BEARER_TOKEN) ]

\* Ledgers whose additional-card transactions are untagged and of one key.
ConfigLedgers(c) ==
  { L \in Ledgers(c) :
      \A a \in AddlIds : L[a].tags = <<>> /\ L[a].date = 1 /\ L[a].amount = 10 }

InitConfig ==
  /\ catalog \in Catalogs
  /\ ledger \in ConfigLedgers(catalog)
  /\ env \in {LoadEnv(os) : os \in OsEnvironments}
  /\ DRY_RUN \in BOOLEAN
  /\ run = 1
  /\ pc = "main"
  /\ status = "running"
  /\ main_txns = <<>>
  /\ addl_txns = <<>>
  /\ tag_id = 0
  /\ addl_candidates = <<>>
  /\ idx = 0
  /\ j = 0
  /\ counts = ZeroCounts
  /\ log = <<>>
  /\ calls = <<>>
  /\ start = ledger
  /\ prev = [NoRun EXCEPT !.status = "none"] @@ [start |-> ledger]
  /\ first = ledger
  /\ NoFetch

SpecConfig == InitConfig /\ [][Next]_vars

(***************************************************************************)
(* C15  Configuration error halts before any network call.  A run whose    *)
(* primary account id, additional account id or API token is unset or      *)
(* empty never leaves the environment check: it has fetched nothing,       *)
(* looked up no tag, issued no mutation, and it ends on the early exit;    *)
(* the early exit is taken by such runs only.                              *)
(***************************************************************************)
Absent ==
  \E n \in {"MAIN_ACCOUNT_ID", "ADDL_ACCOUNT_ID", "API_TOKEN"} :
     env[n] = None \/ env[n] = ""

C15_ConfigHalts ==
  /\ Absent =>
        /\ pc = "main"
        /\ status \in {"running", "exit", "killed"}
        /\ main_txns = <<>> /\ addl_txns = <<>> /\ tag_id = 0
        /\ addl_candidates = <<>> /\ idx = 0
        /\ calls = <<>> /\ log = <<>>
        /\ ledger = start
  /\ status = "exit" => Absent /\ pc = "main"
  /\ ~Absent /\ status # "running" /\ status # "killed" => pc # "main"

\* A live run with both account ids set and an empty token took the early
\* exit, with a candidate in the ledger that a complete run would share.
C15_Witness ==
  /\ status = "exit" /\ Live
  /\ env.MAIN_ACCOUNT_ID = MainAcct /\ env.ADDL_ACCOUNT_ID = AddlAcct
  /\ env.API_TOKEN = ""
  /\ \E a \in Unlabeled(ledger) :
        Bucket(ledger, a) # <<>> /\ ~SharedIn(ledger, Bucket(ledger, a)[1])

\* The loop of fetch_transactions keeps running: a page that can be asked
\* for is asked for.
SpecFetchLive == InitFetch /\ [][NextFetch]_vars /\ WF_vars(FetchPage)

(***************************************************************************)
(* C16  Fetch termination.  Whatever totals (up to a bound) the remote     *)
(* reports and however short its pages are, every iteration of the loop    *)
(* either receives at least one record, and then the offset strictly       *)
(* grows, or receives an empty page, and then the loop is left with        *)
(* nothing added; and fetch_transactions eventually returns.               *)
(***************************************************************************)
C16_FetchTerminates ==
  /\ [][ fpc = "loop" =>
            \/ offset' > offset /\ Len(results') > Len(results)
            \/ offset' = offset /\ results' = results /\ fpc' = "returned" ]_vars
  /\ <>(fpc = "returned")

\* The call returned on an empty page, below the total the remote reported,
\* after it had received records.
C16_Witness ==
  /\ fpc = "returned" /\ f_mode = "arbitrary"
  /\ offset > 0
  /\ offset < (IF f_total.totalSelectableCount # 0 THEN f_total.totalSelectableCount
               ELSE f_total.totalCount)

(***************************************************************************)
(* Ledgers for the matching key: merchants missing, blank, and the same    *)
(* name under other casing, with surrounding and with inner blanks; dates  *)
(* and amounts that differ.                                                *)
(***************************************************************************)
KeyMerchants ==
  { [null |-> TRUE,  name |-> <<>>],
    [null |-> FALSE, name |-> <<" ">>],
    [null |-> FALSE, name |-> <<"A", "b">>],
    [null |-> FALSE, name |-> <<" ", "a", "B", " ">>],
    [null |-> FALSE, name |-> <<"a", " ", "b">>] }

KeyLedgers ==
  { [i \in TxnIds |->
       IF i \in MainIds
       THEN [account |-> MainAcct, date |-> IF i = 1 THEN 1 ELSE d, amount |-> 10,
             merchant |-> mm[i], ownedByUser |-> "user", tags |-> <<>>]
       ELSE [account |-> AddlAcct, date |-> 1,
             amount |-> IF i = NumMain + 1 THEN am ELSE 10,
             merchant |-> ma[i], ownedByUser |-> "user", tags |-> <<>>]] :
      mm \in [MainIds -> KeyMerchants],
      ma \in {f \in [AddlIds -> KeyMerchants] :
                \A a \in AddlIds : a > NumMain + 1 => f[a] = [null |-> TRUE, name |-> <<>>]},
      d \in {1, 2}, am \in {10, 20} }

InitKey ==
  /\ catalog \in {c \in Catalogs : Len(c) > 1}
  /\ ledger \in KeyLedgers
  /\ env = [MAIN_ACCOUNT_ID |-> MainAcct, ADDL_ACCOUNT_ID |-> AddlAcct, API_TOKEN |-> "tok"]
  /\ DRY_RUN = FALSE
  /\ run = 1
  /\ pc = "main"
  /\ status = "running"
  /\ main_txns = <<>>
  /\ addl_txns = <<>>
  /\ tag_id = 0
  /\ addl_candidates = <<>>
  /\ idx = 0
  /\ j = 0
  /\ counts = ZeroCounts
  /\ log = <<>>
  /\ calls = <<>>
  /\ start = ledger
  /\ prev = [NoRun EXCEPT !.status = "none"] @@ [start |-> ledger]
  /\ first = ledger
  /\ NoFetch

SpecKey == InitKey /\ [][Next]_vars

(***************************************************************************)
(* C17  Primary index and matching.  The bucket looked up for a candidate  *)
(* is the list, in fetch order, of the fetched main-card transactions of   *)
(* the same date, the same amount and the same merchant name once trimmed  *)
(* and lower-cased, a missing merchant counting as the empty name; and     *)
(* every fetched main-card transaction is in exactly one bucket of the     *)
(* index, once.  The trimmed, lower-cased names are written out here.      *)
(***************************************************************************)
CanonName(merchant) ==
  CASE merchant.null                              -> <<>>
    [] merchant.name = <<" ">>                    -> <<>>
    [] merchant.name = <<"A", "b">>               -> <<"a", "b">>
    [] merchant.name = <<" ", "a", "B", " ">>     -> <<"a", "b">>
    [] merchant.name = <<"a", " ", "b">>          -> <<"a", " ", "b">>
    [] merchant.name = <<"a", "b">>               -> <<"a", "b">>
    [] OTHER                                      -> merchant.name

SameKey(m, a) ==
  m.date = a.date /\ m.amount = a.amount /\ CanonName(m.merchant) = CanonName(a.merchant)

Occurrences(s, x) == Cardinality({p \in 1..Len(s) : s[p] = x})

C17_IndexAndMatching ==
  pc \in {"loop", "mutate"} =>
     LET index == main_index(main_txns)
     IN  /\ \A p \in 1..Len(addl_candidates) :
               IndexGet(index, key_for(addl_candidates[p]))
                  = SelectSeq(main_txns, LAMBDA m : SameKey(m, addl_candidates[p]))
         /\ idx \in 1..Len(addl_candidates) =>
               MainsOf(Cur) = SelectSeq(main_txns, LAMBDA m : SameKey(m, Cur))
         /\ \A i \in 1..Len(main_txns) :
               /\ Cardinality({k \in DOMAIN index : InSeq(main_txns[i], index[k])}) = 1
               /\ \A k \in DOMAIN index : Occurrences(index[k], main_txns[i]) <= 1
         /\ \A k \in DOMAIN index :
               index[k] = SelectSeq(main_txns, LAMBDA m : InSeq(m, index[k]))

\* The loop stands at a candidate whose padded, otherwise-cased merchant
\* name found the one main-card transaction of its key, the other
\* main-card transaction being of another key.
C17_Witness ==
  /\ pc = "loop" /\ status = "running" /\ idx \in 1..Len(addl_candidates)
  /\ ~Cur.merchant.null /\ Cur.merchant.name = <<" ", "a", "B", " ">>
  /\ Len(main_txns) = 2 /\ Len(MainsOf(Cur)) = 1
  /\ MainsOf(Cur)[1].merchant.name = <<"A", "b">>
  /\ \E i \in 1..2 : main_txns[i].merchant.name = <<"a", " ", "b">>

(***************************************************************************)
(* C18  Label implies shared counterpart.  Over any sequence of runs, each *)
(* of which may stop at any point, also between two mutations: an          *)
(* additional-card transaction that has received the sync tag from the     *)
(* program (it carries it now and did not before the first run) has, in    *)
(* the ledger of that moment, a main-card transaction of its key that is   *)
(* SHARED; and no step makes a SHARED main-card transaction INDIVIDUAL or  *)
(* removes the tag, so this stays so in every later state.                 *)
(***************************************************************************)
TaggedByProgram(a) == Labeled(ledger, a) /\ ~Labeled(first, a)

C18_State ==
  \A a \in AddlIds :
     TaggedByProgram(a) =>
        \E h \in 1..Len(Bucket(ledger, a)) : SharedIn(ledger, Bucket(ledger, a)[h])

C19_WholeBucketShared ==
  \A a \in AddlIds :
     /\ TaggedByProgram(a)
     /\ status = "done"
     /\ \A h \in 1..Len(Bucket(first, a)) : ~SharedIn(first, Bucket(first, a)[h])
     => \A h \in 1..Len(Bucket(ledger, a)) : SharedIn(ledger, Bucket(ledger, a)[h])

(***************************************************************************)
(* C20  Mutation targets are confined.  In every run each                  *)
(* set_owner_shared call targets a main-card transaction in the bucket of  *)
(* an additional-card transaction that was unlabeled when the run began,   *)
(* and each update_tags_replace call targets such an unlabeled             *)
(* additional-card transaction whose bucket is not empty.  Over all runs,  *)
(* the ownership of additional-card transactions, the tags of main-card    *)
(* transactions and the tags of additional-card transactions without a     *)
(* main-card transaction of their key are as before the first run, and so  *)
(* are every transaction's account, date, amount and merchant.             *)
(***************************************************************************)
C20_TargetsConfined ==
  /\ \A k \in 1..Len(calls) :
        /\ calls[k].cand \in Unlabeled(start)
        /\ calls[k].op = "set_owner_shared" =>
              /\ calls[k].id \in MainIds
              /\ ledger[calls[k].id].account = MainAcct
              /\ InSeq(calls[k].id, Bucket(start, calls[k].cand))
        /\ calls[k].op = "update_tags_replace" =>
              /\ calls[k].id \in AddlIds
              /\ calls[k].id = calls[k].cand
              /\ ledger[calls[k].id].account = AddlAcct
              /\ Bucket(start, calls[k].id) # <<>>
  /\ \A a \in AddlIds :
        /\ ledger[a].ownedByUser = first[a].ownedByUser
        /\ Bucket(first, a) = <<>> => ledger[a].tags = first[a].tags
  /\ \A i \in MainIds : ledger[i].tags = first[i].tags
  /\ \A i \in TxnIds :
        /\ ledger[i].account = first[i].account
        /\ ledger[i].date = first[i].date
        /\ ledger[i].amount = first[i].amount
        /\ ledger[i].merchant = first[i].merchant

\* A live run ended that shared and tagged for one candidate and left an
\* unmatched candidate, and a main-card transaction of another key, alone.
C20_Witness ==
  /\ Live /\ status = "done" /\ Len(calls) >= 2
  /\ \E a \in Unlabeled(start) : Bucket(start, a) = <<>> /\ Logged(a)
  /\ \E i \in MainIds :
        /\ \A a \in AddlIds : ~InSeq(i, Bucket(start, a))
        /\ ~SharedIn(ledger, i)

====
